---- MODULE Spec2Model ----
(***************************************************************************)
(* Local View by Collection: the addon's callbacks (two activate           *)
(* operators, the hierarchy popup, the menu, register and unregister) as   *)
(* actions over the host's view state.                                     *)
(*                                                                         *)
(* The host is the environment.  Its calls have their documented effect    *)
(* (select_all(DESELECT) clears the selection, select_set(True) selects,   *)
(* view3d.localview() toggles local view on the selected objects) or they  *)
(* raise: every host call made by a callback is a call site, and a         *)
(* callback runs under a set F of call sites that raise during that run.   *)
(***************************************************************************)
EXTENDS Naturals, Sequences, FiniteSets

\* ------------------------------------------------------------------ bounds
\* At most this many host calls raise inside the try block of one run of an
\* operator (register and unregister run under every set of raising calls).
MaxFails == 2
\* register() is called at most this many times without an unregister().
MaxRegs == 2

\* ------------------------------------------------------------------- scene
\* The scene the callbacks run against.  The root ("Scene Collection") is the
\* scene's own collection: it heads the view layer but is not a data
\* collection, so bpy.data.collections.get does not find it.  A holds a hidden
\* object and the child collections B and C.  D is a data collection that is
\* not linked into the view layer.  o3 is in the root collection alone.
None == "none"
Root == "Scene Collection"
Objects == {"o1", "o2", "o3", "h"}
Visible == {"o1", "o2", "o3"}
DataCollections == {"A", "B", "C", "D"}
AllCollections == DataCollections \cup {Root}

\* Collection.children / LayerCollection.children, in order
Children(c) ==
  CASE c = Root -> <<"A">>
    [] c = "A" -> <<"B", "C">>
    [] OTHER -> <<>>

\* Collection.objects, in order
CollObjects(c) ==
  CASE c = Root -> <<"o3">>
    [] c = "A" -> <<"h">>
    [] c = "B" -> <<"o1">>
    [] c = "C" -> <<"o2">>
    [] c = "D" -> <<"o2">>
    [] OTHER -> <<>>

Range(s) == {s[i] : i \in 1..Len(s)}

\* keep the first occurrence of every element
RECURSIVE Dedup(_)
Dedup(s) ==
  IF s = <<>> THEN <<>>
  ELSE LET r == Dedup(SubSeq(s, 1, Len(s) - 1))
       IN IF s[Len(s)] \in Range(r) THEN r ELSE Append(r, s[Len(s)])

\* Collection.all_objects: the collection's objects, then its children's
RECURSIVE AllObjectsRaw(_)
RECURSIVE AllObjectsOfList(_)
AllObjectsOfList(cs) ==
  IF cs = <<>> THEN <<>> ELSE AllObjectsRaw(Head(cs)) \o AllObjectsOfList(Tail(cs))
AllObjectsRaw(c) == CollObjects(c) \o AllObjectsOfList(Children(c))
AllObjects(c) == Dedup(AllObjectsRaw(c))

\* Object.users_collection
UsersCollection(o) == {c \in AllCollections : o \in Range(CollObjects(c))}

\* bpy.data.collections.get(name)
CollectionsGet(name) == IF name \in DataCollections THEN name ELSE None

\* sorted(..., key=lambda c: c.name.lower()); the names here are ordered
\* A < B < C < D < Scene Collection
NameRank(c) ==
  CASE c = "A" -> 1 [] c = "B" -> 2 [] c = "C" -> 3 [] c = "D" -> 4 [] OTHER -> 5

RECURSIVE SortedByName(_)
SortedByName(S) ==
  IF S = {} THEN <<>>
  ELSE LET m == CHOOSE x \in S : \A y \in S : NameRank(x) <= NameRank(y)
       IN <<m>> \o SortedByName(S \ {m})

\* ------------------------------------------------------------- call sites
Site(k) == <<k, "-">>
ObjSite(k, o) == <<k, o>>

RECURSIVE SmallSubsets(_, _)
SmallSubsets(S, n) ==
  IF n = 0 THEN {{}}
  ELSE LET P == SmallSubsets(S, n - 1)
       IN P \cup {F \cup {x} : F \in P, x \in S}

\* ------------------------------------------------------------------- state
VARIABLES
  selected,        \* objects whose selection flag is set
  active,          \* view_layer.objects.active, or None
  local_view,      \* the 3D view is in local view
  workset,         \* the objects local view shows
  addon_keymaps,   \* the module's list of (km, kmi); km is always 'Window'
  keymap_items,    \* the items of the host's 'Window' addon keymap
  classes,         \* the classes registered with the host
  pc,              \* "idle", or "returned" when a callback has just ended
  last             \* what the callback that just ended did

vars == <<selected, active, local_view, workset, addon_keymaps, keymap_items,
          classes, pc, last>>

Host == [selected |-> selected, active |-> active,
         local_view |-> local_view, workset |-> workset]


\* ------------------------------------------------- the host's operations
\* bpy.ops.view3d.localview(): leave local view, or enter it on the selected
\* objects (nothing selected: the operator is cancelled, nothing changes)
HostLocalView(x) ==
  IF x.local_view THEN [x EXCEPT !.local_view = FALSE, !.workset = {}]
  ELSE IF x.selected = {} THEN x
  ELSE [x EXCEPT !.local_view = TRUE, !.workset = x.selected]

\* bpy.ops.object.select_all(action='DESELECT')
HostDeselectAll(x) == [x EXCEPT !.selected = {}]

\* obj.select_set(True)
HostSelect(x, o) == [x EXCEPT !.selected = @ \cup {o}]

\* ----------------------------------------------- the activate operators
\* A run of execute: the host state it works on, the exceptions it has
\* swallowed (sw), the object it picked (first_obj) and how it goes on (st:
\* "run", "cancel" = return CANCELLED, "exc" = an exception on its way to the
\* outer except clause).
StartRun(h) ==
  [selected |-> h.selected, active |-> h.active, local_view |-> h.local_view,
   workset |-> h.workset, sw |-> {}, first_obj |-> None, st |-> "run"]

Swallow(x, k) == [x EXCEPT !.sw = @ \cup {k}]

\* an exception the outer "except Exception as e" turns into CANCELLED
Caught(x, k) == [x EXCEPT !.sw = @ \cup {k}, !.st = "exc"]

\* _is_in_local_view(space): False when reading space.local_view raises
IsInLocalView(x, F) == IF Site("local_view_get") \in F THEN FALSE ELSE x.local_view

\* "If already in Local View, exit first so we can switch to the new set"
ExitLocalView(x, F) ==
  LET x1 == IF Site("local_view_get") \in F THEN Swallow(x, "local_view_get") ELSE x
  IN IF ~IsInLocalView(x, F) THEN x1
     ELSE IF Site("localview_exit") \in F THEN Caught(x1, "localview_exit")
     ELSE HostLocalView(x1)

\* the deselect step left out: the selection goes into local view as it is
DeselectEverythingSkipped(x, F) == x

\* "Deselect everything, ensure OBJECT mode": select_all, and on an exception
\* mode_set then select_all again, and on an exception nothing
DeselectEverything(x, F) ==
  IF Site("select_all_1") \notin F THEN HostDeselectAll(x)
  ELSE IF Site("mode_set") \in F THEN Swallow(x, "deselect")
  ELSE IF Site("select_all_2") \in F THEN Swallow(x, "deselect")
  ELSE HostDeselectAll(Swallow(x, "select_all_1"))

\* the loop over the iterator: select the visible objects, remember the first.
\* seen holds the names already met (the second operator skips them; the
\* first operator meets every object once)
RECURSIVE SelectVisible(_, _, _, _)
SelectVisible(x, iter, seen, F) ==
  IF iter = <<>> THEN x
  ELSE LET o == Head(iter)
           x1 == IF o \in seen THEN x
                 ELSE IF ObjSite("visible_get", o) \in F THEN Swallow(x, "select")
                 ELSE IF o \notin Visible THEN x
                 ELSE IF ObjSite("select_set", o) \in F THEN Swallow(x, "select")
                 ELSE [HostSelect(x, o) EXCEPT
                         !.first_obj = IF @ = None THEN o ELSE @]
       IN SelectVisible(x1, Tail(iter), seen \cup {o}, F)

\* "if first_obj is None: ... return {'CANCELLED'}"
CheckFirst(x) == IF x.first_obj = None THEN [x EXCEPT !.st = "cancel"] ELSE x

\* "view_layer.objects.active = first_obj" in its try
SetActiveFirst(x, F) ==
  IF Site("active_set") \in F THEN Swallow(x, "active_set")
  ELSE [x EXCEPT !.active = x.first_obj]

\* "Enter Local View for the selected set"
EnterLocalView(x, F) ==
  IF Site("localview_enter") \in F THEN Caught(x, "localview_enter")
  ELSE HostLocalView(x)

\* the loop that selects prev_selected again
RECURSIVE Reselect(_, _, _)
Reselect(x, todo, F) ==
  IF todo = {} THEN x
  ELSE LET o == CHOOSE p \in todo : TRUE
           x1 == IF ObjSite("restore_select_set", o) \in F
                 THEN Swallow(x, "restore_select_set")
                 ELSE HostSelect(x, o)
       IN Reselect(x1, todo \ {o}, F)

\* the restore left out: the activated objects stay selected
RestoreSelectionSkipped(x, prev_selected, prev_active, F) == x

\* "Restore or clear selection depending on prior state"
RestoreSelection(x, prev_selected, prev_active, F) ==
  IF prev_selected # {}
  THEN IF Site("restore_select_all") \in F THEN Swallow(x, "restore_select_all")
       ELSE LET x1 == Reselect(HostDeselectAll(x), prev_selected, F)
            IN IF prev_active = None THEN x1
               ELSE IF Site("restore_active_set") \in F
               THEN Swallow(x1, "restore_active_set")
               ELSE [x1 EXCEPT !.active = prev_active]
  ELSE IF Site("final_select_all") \in F THEN Swallow(x, "final_select_all")
       ELSE HostDeselectAll(x)

\* a stage runs only while the run has neither returned nor raised
Then(x, y) == IF x.st = "run" THEN y ELSE x

\* the body under "with bpy.context.temp_override(...)", shared by the two
\* operators: iter is the objects the operator walks, in order
ActivateBody(h, iter, F) ==
  LET prev_selected == h.selected
      prev_active == h.active
      x0 == IF Site("temp_override") \in F
            THEN Caught(StartRun(h), "temp_override") ELSE StartRun(h)
      x1 == Then(x0, ExitLocalView(x0, F))
      x2 == Then(x1, DeselectEverything(x1, F))
      x3 == Then(x2, SelectVisible(x2, iter, {}, F))
      x4 == Then(x3, CheckFirst(x3))
      x5 == Then(x4, SetActiveFirst(x4, F))
      x6 == Then(x5, EnterLocalView(x5, F))
  IN Then(x6, RestoreSelection(x6, prev_selected, prev_active, F))

\* a callback's outcome: the host state it leaves, what it returned ("RAISED"
\* when an exception left it), what it swallowed, and the call whose
\* exception left it
Outcome(x, res, esc) ==
  [selected |-> x.selected, active |-> x.active, local_view |-> x.local_view,
   workset |-> x.workset, res |-> res, sw |-> x.sw, esc |-> esc]

Raised(h, k) == Outcome(StartRun(h), "RAISED", k)
Cancelled(h) == Outcome(StartRun(h), "CANCELLED", None)

\* the outer try without its except clause: the exception leaves execute
BodyOutcomeReraised(x) ==
  IF x.st = "exc"
  THEN Outcome(x, "RAISED",
         CHOOSE k \in x.sw : k \in {"temp_override", "localview_exit", "localview_enter"})
  ELSE Outcome(x, IF x.st = "run" THEN "FINISHED" ELSE "CANCELLED", None)

BodyOutcome(x) ==
  Outcome(x, IF x.st = "run" THEN "FINISHED" ELSE "CANCELLED", None)

\* coll.all_objects if include_children (the attribute exists) else coll.objects
Iterator(coll, include_children) ==
  IF include_children THEN AllObjects(coll) ELSE CollObjects(coll)

\* VIEW3D_OT_local_view_collection_activate.execute; has_view: the context
\* offers a 3D view area with a window region and a VIEW_3D space
ExecuteSingle(h, collection_name, include_children, has_view, F) ==
  IF Site("selected_objects") \in F THEN Raised(h, "selected_objects")
  ELSE IF Site("active_get") \in F THEN Raised(h, "active_get")
  ELSE IF Site("collections_get") \in F THEN Raised(h, "collections_get")
  ELSE IF CollectionsGet(collection_name) = None THEN Cancelled(h)
  ELSE IF Site("area_lookup") \in F THEN Raised(h, "area_lookup")
  ELSE IF ~has_view THEN Cancelled(h)
  ELSE BodyOutcome(ActivateBody(h,
         Iterator(CollectionsGet(collection_name), include_children), F))

\* the collections named in collection_names: split on "\n", empty names
\* dropped, names that are no data collection dropped
ValidCollections(names) ==
  SelectSeq(names, LAMBDA n : n # "" /\ CollectionsGet(n) # None)

RECURSIVE ConcatIterators(_, _)
ConcatIterators(colls, include_children) ==
  IF colls = <<>> THEN <<>>
  ELSE Iterator(Head(colls), include_children)
         \o ConcatIterators(Tail(colls), include_children)

\* VIEW3D_OT_local_view_collections_activate.execute
ExecuteMulti(h, names, include_children, has_view, F) ==
  IF Site("selected_objects") \in F THEN Raised(h, "selected_objects")
  ELSE IF Site("active_get") \in F THEN Raised(h, "active_get")
  ELSE IF Site("collections_get") \in F THEN Raised(h, "collections_get")
  ELSE IF ValidCollections(names) = <<>> THEN Cancelled(h)
  ELSE IF Site("area_lookup") \in F THEN Raised(h, "area_lookup")
  ELSE IF ~has_view THEN Cancelled(h)
  ELSE BodyOutcome(ActivateBody(h,
         ConcatIterators(ValidCollections(names), include_children), F))

\* the host calls before the try block: a raise there leaves the callback
PreludeSites ==
  {Site(k) : k \in {"selected_objects", "active_get", "collections_get",
                    "area_lookup"}}

\* the host calls the body of an activate operator can make from h over iter
BodySites(h, iter) ==
  {Site(k) : k \in {"temp_override", "local_view_get", "select_all_1",
                    "mode_set", "select_all_2", "active_set", "localview_enter"}}
    \cup (IF h.local_view THEN {Site("localview_exit")} ELSE {})
    \cup (IF h.selected = {} THEN {Site("final_select_all")}
          ELSE {Site("restore_select_all")}
                 \cup {ObjSite("restore_select_set", o) : o \in h.selected}
                 \cup (IF h.active # None THEN {Site("restore_active_set")} ELSE {}))
    \cup {ObjSite("visible_get", o) : o \in Range(iter)}
    \cup {ObjSite("select_set", o) : o \in Range(iter) \cap Visible}

\* the sets of calls that may raise during one callback: one call of the
\* prelude (the callback ends there), or up to MaxFails calls of the body
FailureSets(prelude, body) ==
  {{s} : s \in prelude} \cup SmallSubsets(body, MaxFails)

\* the calls a run of the first operator can make
SingleSites(h, name, include_children, has_view) ==
  IF CollectionsGet(name) = None
  THEN FailureSets(PreludeSites \ {Site("area_lookup")}, {})
  ELSE IF ~has_view THEN FailureSets(PreludeSites, {})
  ELSE FailureSets(PreludeSites,
         BodySites(h, Iterator(CollectionsGet(name), include_children)))

\* the calls a run of the second operator can make
MultiBodySites(h, names, include_children, has_view) ==
  IF ValidCollections(names) = <<>> \/ ~has_view THEN {}
  ELSE BodySites(h, ConcatIterators(ValidCollections(names), include_children))

\* ------------------------------------------------- the hierarchy popup
\* _find_layer_collection_path: the layer collections from node down to the
\* target, or <<>> for None
RECURSIVE FindLayerCollectionPath(_, _)
RECURSIVE FindInChildren(_, _)
FindInChildren(children, target) ==
  IF children = <<>> THEN <<>>
  ELSE LET path == FindLayerCollectionPath(Head(children), target)
       IN IF path # <<>> THEN path ELSE FindInChildren(Tail(children), target)
FindLayerCollectionPath(node, target) ==
  IF node = target THEN <<node>>
  ELSE LET path == FindInChildren(Children(node), target)
       IN IF path # <<>> THEN <<node>> \o path ELSE <<>>

\* a text is the sequence of the pieces it is concatenated from
Pad(n) == [i \in 1..n |-> "   "]

\* only the target collection listed, without the collections above it
BuildPathEntriesLeaf(path_nodes) ==
  <<(<<(<<"+- ", path_nodes[Len(path_nodes)]>>), path_nodes[Len(path_nodes)],
       Len(path_nodes) > 1>>)>>

\* _build_path_entries: (display_text, Collection, selectable) per path node
BuildPathEntries(path_nodes) ==
  [i \in 1..Len(path_nodes) |->
     IF i = 1 THEN <<(<<path_nodes[i]>>), path_nodes[i], FALSE>>
     ELSE <<Pad(i - 2) \o <<"+- ", path_nodes[i]>>, path_nodes[i], TRUE>>]

\* _build_full_layer_tree_entries: rec(node, prefix, is_last) and its loop
\* over the children
RECURSIVE TreeRec(_, _, _)
RECURSIVE TreeChildren(_, _, _)
TreeChildren(children, i, next_prefix) ==
  IF i > Len(children) THEN <<>>
  ELSE TreeRec(children[i], next_prefix, i = Len(children))
         \o TreeChildren(children, i + 1, next_prefix)
TreeRec(node, prefix, is_last) ==
  LET text == IF prefix # <<>>
              THEN prefix \o <<(IF is_last THEN "+- " ELSE "|- "), node>>
              ELSE <<node>>
      next_prefix == prefix \o <<(IF is_last THEN "   " ELSE "|  ")>>
  IN <<(<<text, node, prefix # <<>> >>)>>
       \o TreeChildren(Children(node), 1, next_prefix)

BuildFullLayerTreeEntries(root) == TreeRec(root, <<>>, TRUE)

\* the single-selection loop over sorted(obj.users_collection)
RECURSIVE SingleEntries(_)
SingleEntries(colls) ==
  IF colls = <<>> THEN [entries |-> <<>>, disabled |-> <<>>]
  ELSE LET path == FindLayerCollectionPath(Root, Head(colls))
           rest == SingleEntries(Tail(colls))
       IN IF path # <<>>
          THEN [rest EXCEPT !.entries = BuildPathEntries(path) \o @]
          ELSE [rest EXCEPT !.disabled = <<Head(colls)>> \o @]

\* the collections of one selected object only, not the union
UnionNamesOfOne(sel) ==
  IF sel = {} THEN <<>>
  ELSE SortedByName(UsersCollection(CHOOSE o \in sel : TRUE))

\* "union of direct parent collections for all selected objects", sorted
UnionNames(sel) == SortedByName(UNION {UsersCollection(o) : o \in sel})

NoPopup == [kind |-> "none", entries |-> <<>>, disabled |-> <<>>]

\* what the window manager shows: popup_menu(draw), or invoke_props_dialog
\* when popup_menu raised
ShowPopup(h, e, F) ==
  IF Site("popup_menu") \notin F
  THEN [out |-> Outcome(StartRun(h), "FINISHED", None),
        popup |-> [kind |-> "menu", entries |-> e.entries, disabled |-> e.disabled]]
  ELSE IF Site("invoke_props_dialog") \in F
  THEN [out |-> Raised(h, "invoke_props_dialog"), popup |-> NoPopup]
  ELSE [out |-> Outcome(Swallow(StartRun(h), "popup_menu"), "FINISHED", None),
        popup |-> [kind |-> "dialog", entries |-> <<>>, disabled |-> <<>>]]

\* the operator the popup calls reported an ERROR (its outer except clause)
ReportedError(out) ==
  out.sw \cap {"temp_override", "localview_exit", "localview_enter"} # {}

\* the multi-selection branch: bpy.ops.view3d.local_view_collections_activate
\* and "return {'FINISHED'}".  inner is what the called operator returned.
\* A call through bpy.ops may raise for an operator that reported an ERROR.
InvokeMulti(h, has_view, F) ==
  IF Site("ops_call") \in F
  THEN [out |-> Raised(h, "ops_call"), popup |-> NoPopup, inner |-> "NONE"]
  ELSE LET r == ExecuteMulti(h, UnionNames(h.selected), TRUE, has_view, F)
       IN IF r.res = "RAISED"
          THEN [out |-> r, popup |-> NoPopup, inner |-> "RAISED"]
          ELSE IF ReportedError(r) /\ Site("ops_error_report") \in F
          THEN [out |-> [r EXCEPT !.res = "RAISED", !.esc = "ops_error_report"],
                popup |-> NoPopup, inner |-> r.res]
          ELSE [out |-> [r EXCEPT !.res = "FINISHED"],
                popup |-> NoPopup, inner |-> r.res]

\* VIEW3D_OT_collection_hierarchy_popup.invoke; has_vl: context.view_layer
\* is not None
Invoke(h, has_vl, has_view, F) ==
  IF Site("view_layer_get") \in F
  THEN [out |-> Raised(h, "view_layer_get"), popup |-> NoPopup, inner |-> "NONE"]
  ELSE IF ~has_vl
  THEN [out |-> Cancelled(h), popup |-> NoPopup, inner |-> "NONE"]
  ELSE IF Site("layer_collection_get") \in F
  THEN [out |-> Raised(h, "layer_collection_get"), popup |-> NoPopup, inner |-> "NONE"]
  ELSE IF Site("selected_objects") \in F
  THEN [out |-> Raised(h, "selected_objects"), popup |-> NoPopup, inner |-> "NONE"]
  ELSE IF Cardinality(h.selected) > 1 THEN InvokeMulti(h, has_view, F)
  ELSE LET e == IF h.selected # {}
                THEN SingleEntries(SortedByName(
                       UsersCollection(CHOOSE o \in h.selected : TRUE)))
                ELSE [entries |-> BuildFullLayerTreeEntries(Root),
                      disabled |-> <<>>]
           p == ShowPopup(h, e, F)
       IN [out |-> p.out, popup |-> p.popup, inner |-> "NONE"]

\* the calls a run of invoke can make
InvokeSites(h, has_vl, has_view) ==
  IF ~has_vl THEN FailureSets({Site("view_layer_get")}, {})
  ELSE IF Cardinality(h.selected) > 1
  THEN FailureSets(
         {Site("view_layer_get"), Site("layer_collection_get"), Site("ops_call")}
           \cup PreludeSites,
         {Site("ops_error_report")}
           \cup MultiBodySites(h, UnionNames(h.selected), TRUE, has_view))
  ELSE FailureSets(
         {Site("view_layer_get"), Site("layer_collection_get"),
          Site("selected_objects")},
         {Site("popup_menu"), Site("invoke_props_dialog")})

\* VIEW3D_MT_local_view_collections.draw: one operator entry per collection,
\* those of the selected objects or every data collection
MenuCollections(h) ==
  IF h.selected # {} THEN UNION {UsersCollection(o) : o \in h.selected}
  ELSE DataCollections

MenuDraw(h, F) ==
  IF Site("selected_objects") \in F
  THEN [out |-> Raised(h, "selected_objects"), popup |-> NoPopup]
  ELSE IF Site("layout_operator") \in F /\ MenuCollections(h) # {}
  THEN [out |-> Raised(h, "layout_operator"), popup |-> NoPopup]
  ELSE [out |-> Outcome(StartRun(h), "NONE", None),
        popup |-> [kind |-> "draw",
                   entries |-> [i \in 1..Cardinality(MenuCollections(h)) |->
                                  LET c == SortedByName(MenuCollections(h))[i]
                                  IN <<(<<c>>), c, TRUE>>],
                   disabled |-> <<>>]]

MenuSites == {Site("selected_objects"), Site("layout_operator")}


\* ------------------------------------------------ register / unregister
\* a call site of register or unregister: the call and its position
KSite(k, n) == <<k, n>>

Keys == <<"NUMPAD_ASTERIX", "NUMPAD_ASTERISK", "NUMPAD_SLASH">>
RegisterOrder == <<"collection_activate", "collections_activate", "menu", "popup">>
UnregisterOrder == <<"menu", "collection_activate", "collections_activate", "popup">>

Keymaps == [addon_keymaps |-> addon_keymaps, keymap_items |-> keymap_items,
            classes |-> classes]

KOutcome(k, res, sw, esc) ==
  [addon_keymaps |-> k.addon_keymaps, keymap_items |-> k.keymap_items,
   classes |-> k.classes, res |-> res, sw |-> sw, esc |-> esc]

\* the bpy.utils.register_class calls, in order, up to the first that raises
RECURSIVE RegisterClasses(_, _, _)
RegisterClasses(cls, i, F) ==
  IF i > Len(RegisterOrder) THEN [classes |-> cls, raised |-> FALSE]
  ELSE IF KSite("register_class", i) \in F THEN [classes |-> cls, raised |-> TRUE]
  ELSE RegisterClasses(cls \cup {RegisterOrder[i]}, i + 1, F)

\* km.keymap_items.new(...): the host names the new item
NewItem(items, key) ==
  <<CHOOSE i \in 1..(Cardinality(items) + 1) : \A it \in items : it[1] # i, key>>

\* the three attempts at km.keymap_items.new: the attempt that made the item
\* (0: the third raised too)
KeyAttempt(F) ==
  IF KSite("keymap_items_new", 1) \notin F THEN 1
  ELSE IF KSite("keymap_items_new", 2) \notin F THEN 2
  ELSE IF KSite("keymap_items_new", 3) \notin F THEN 3
  ELSE 0

\* register(); has_kc: wm.keyconfigs.addon is not None
Register(k, has_kc, F) ==
  LET rc == RegisterClasses(k.classes, 1, F)
      k1 == [k EXCEPT !.classes = rc.classes]
      a == KeyAttempt(F)
      sw == IF a > 1 \/ a = 0 THEN {"keymap_items_new"} ELSE {}
  IN IF rc.raised THEN KOutcome(k1, "RAISED", {}, "register_class")
     ELSE IF ~has_kc THEN KOutcome(k1, "NONE", {}, None)
     ELSE IF KSite("keymaps_new", 0) \in F THEN KOutcome(k1, "RAISED", {}, "keymaps_new")
     ELSE IF a = 0 THEN KOutcome(k1, "RAISED", sw, "keymap_items_new_3")
     ELSE LET kmi == NewItem(k1.keymap_items, Keys[a])
          IN KOutcome([k1 EXCEPT !.keymap_items = @ \cup {kmi},
                                 !.addon_keymaps = Append(@, kmi)],
                      "NONE", sw, None)

\* "for km, kmi in addon_keymaps: km.keymap_items.remove(kmi)": the items
\* left in the keymap, and whether a remove raised (which ends the loop)
RECURSIVE RemoveItems(_, _, _, _)
RemoveItems(items, handles, i, F) ==
  IF i > Len(handles) THEN [keymap_items |-> items, raised |-> FALSE]
  ELSE IF KSite("keymap_items_remove", i) \in F
  THEN [keymap_items |-> items, raised |-> TRUE]
  ELSE RemoveItems(items \ {handles[i]}, handles, i + 1, F)

\* the bpy.utils.unregister_class calls, in order
RECURSIVE UnregisterClasses(_, _, _)
UnregisterClasses(cls, i, F) ==
  IF i > Len(UnregisterOrder) THEN [classes |-> cls, raised |-> FALSE]
  ELSE IF KSite("unregister_class", i) \in F THEN [classes |-> cls, raised |-> TRUE]
  ELSE UnregisterClasses(cls \ {UnregisterOrder[i]}, i + 1, F)

\* unregister(): try the removals, finally clear the list, then the classes
Unregister(k, F) ==
  LET rm == RemoveItems(k.keymap_items, k.addon_keymaps, 1, F)
      k1 == [k EXCEPT !.keymap_items = rm.keymap_items, !.addon_keymaps = <<>>]
      uc == UnregisterClasses(k1.classes, 1, F)
  IN IF rm.raised THEN KOutcome(k1, "RAISED", {}, "keymap_items_remove")
     ELSE IF uc.raised
     THEN KOutcome([k1 EXCEPT !.classes = uc.classes], "RAISED", {}, "unregister_class")
     ELSE KOutcome([k1 EXCEPT !.classes = uc.classes], "NONE", {}, None)

RegisterSites ==
  {KSite("register_class", i) : i \in 1..Len(RegisterOrder)}
    \cup {KSite("keymaps_new", 0)}
    \cup {KSite("keymap_items_new", i) : i \in 1..Len(Keys)}

UnregisterSites(k) ==
  {KSite("keymap_items_remove", i) : i \in 1..Len(k.addon_keymaps)}
    \cup {KSite("unregister_class", i) : i \in 1..Len(UnregisterOrder)}

\* ------------------------------------------------------------ the actions
\* what is known of the callback that ended last; Idle when none has
Idle ==
  [op |-> "none", res |-> "NONE", sw |-> {}, esc |-> None, name |-> "",
   include_children |-> FALSE, has_view |-> FALSE, inner |-> "NONE",
   has_vl |-> FALSE, prev_selected |-> {}, prev_active |-> None,
   prev_local_view |-> FALSE, prev_keymaps |-> <<>>, prev_items |-> {},
   popup |-> NoPopup]

Init ==
  /\ selected = {}
  /\ active = None
  /\ local_view = FALSE
  /\ workset = {}
  /\ addon_keymaps = <<>>
  /\ keymap_items = {}
  /\ classes = {}
  /\ pc = "idle"
  /\ last = Idle

KUnchanged == UNCHANGED <<addon_keymaps, keymap_items, classes>>
HUnchanged == UNCHANGED <<selected, active, local_view, workset>>

\* the callback has ended with outcome out: the host state it leaves
Leave(out) ==
  /\ selected' = out.selected
  /\ active' = out.active
  /\ local_view' = out.local_view
  /\ workset' = out.workset
  /\ pc' = "returned"
  /\ KUnchanged

KLeave(out) ==
  /\ addon_keymaps' = out.addon_keymaps
  /\ keymap_items' = out.keymap_items
  /\ classes' = out.classes
  /\ pc' = "returned"
  /\ HUnchanged

\* the user clicks an object: its selection flag flips
UserSelect ==
  /\ pc = "idle"
  /\ \E o \in Visible :
       selected' = IF o \in selected THEN selected \ {o} ELSE selected \cup {o}
  /\ UNCHANGED <<active, local_view, workset, pc, last>>
  /\ KUnchanged

\* the user makes an object active, or the active object goes away
UserSetActive ==
  /\ pc = "idle"
  /\ \E o \in Visible \cup {None} : active' = o
  /\ UNCHANGED <<selected, local_view, workset, pc, last>>
  /\ KUnchanged

\* the user toggles local view
UserLocalView ==
  /\ pc = "idle"
  /\ LET x == HostLocalView(Host)
     IN local_view' = x.local_view /\ workset' = x.workset
  /\ UNCHANGED <<selected, active, pc, last>>
  /\ KUnchanged

\* the host runs VIEW3D_OT_local_view_collection_activate.execute
Activate ==
  /\ pc = "idle"
  /\ \E name \in DataCollections \cup {"X"}, inc \in BOOLEAN, hv \in BOOLEAN :
       \E F \in SingleSites(Host, name, inc, hv) :
         LET out == ExecuteSingle(Host, name, inc, hv, F)
         IN /\ Leave(out)
            /\ last' = [Idle EXCEPT !.op = "activate", !.res = out.res,
                          !.sw = out.sw, !.esc = out.esc, !.name = name,
                          !.include_children = inc, !.has_view = hv,
                          !.prev_selected = selected, !.prev_active = active,
                          !.prev_local_view = local_view]

\* the host runs VIEW3D_OT_collection_hierarchy_popup.invoke
PopupInvoke ==
  /\ pc = "idle"
  /\ \E vl \in BOOLEAN, hv \in BOOLEAN :
       \E F \in InvokeSites(Host, vl, hv) :
         LET r == Invoke(Host, vl, hv, F)
         IN /\ Leave(r.out)
            /\ last' = [Idle EXCEPT !.op = "invoke", !.res = r.out.res,
                          !.sw = r.out.sw, !.esc = r.out.esc, !.has_view = hv,
                          !.inner = r.inner, !.popup = r.popup,
                          !.include_children = TRUE, !.has_vl = vl,
                          !.prev_selected = selected, !.prev_active = active,
                          !.prev_local_view = local_view]

\* the host runs VIEW3D_MT_local_view_collections.draw
MenuDrawCall ==
  /\ pc = "idle"
  /\ \E F \in FailureSets(MenuSites, {}) :
       LET r == MenuDraw(Host, F)
       IN /\ Leave(r.out)
          /\ last' = [Idle EXCEPT !.op = "draw", !.res = r.out.res,
                        !.sw = r.out.sw, !.esc = r.out.esc, !.popup = r.popup,
                        !.prev_selected = selected, !.prev_active = active]

\* the host runs register()
RegisterCall ==
  /\ pc = "idle"
  /\ Cardinality(keymap_items) < MaxRegs
  /\ \E kc \in BOOLEAN :
       \E F \in SUBSET RegisterSites :
         LET out == Register(Keymaps, kc, F)
         IN /\ KLeave(out)
            /\ last' = [Idle EXCEPT !.op = "register", !.res = out.res,
                          !.sw = out.sw, !.esc = out.esc,
                          !.prev_keymaps = addon_keymaps,
                          !.prev_items = keymap_items]

\* the host runs unregister()
UnregisterCall ==
  /\ pc = "idle"
  /\ \E F \in SUBSET UnregisterSites(Keymaps) :
       LET out == Unregister(Keymaps, F)
       IN /\ KLeave(out)
          /\ last' = [Idle EXCEPT !.op = "unregister", !.res = out.res,
                        !.sw = out.sw, !.esc = out.esc,
                        !.prev_keymaps = addon_keymaps,
                        !.prev_items = keymap_items]

\* the host takes the callback's result and goes back to its event loop
Return ==
  /\ pc = "returned"
  /\ pc' = "idle"
  /\ last' = Idle
  /\ HUnchanged
  /\ KUnchanged

ViewNext ==
  \/ UserSelect
  \/ UserSetActive
  \/ UserLocalView
  \/ Activate
  \/ PopupInvoke
  \/ MenuDrawCall
  \/ Return

KeymapNext ==
  \/ RegisterCall
  \/ UnregisterCall
  \/ Return

\* the view callbacks
SpecView == Init /\ [][ViewNext]_vars

\* register and unregister
SpecKeymap == Init /\ [][KeymapNext]_vars


\* the two groups of callbacks work on disjoint state (the view, the keymaps)
\* and meet only in what the last callback returned, so a behaviour of Spec
\* runs one group from the state the other group was loaded in
ViewPristine == selected = {} /\ active = None /\ ~local_view /\ workset = {}
KeymapsPristine == addon_keymaps = <<>> /\ keymap_items = {} /\ classes = {}

Next ==
  \/ KeymapsPristine /\ ViewNext
  \/ ViewPristine /\ KeymapNext

\* every callback of the addon
Spec == Init /\ [][Next]_vars


\* ---------------------------------------------------------------- claims
\* the callback that has just ended
Ended(op) == pc = "returned" /\ last.op = op
Finished(op) == Ended(op) /\ last.res = "FINISHED"

\* the visible objects of a collection, with those of its children
ChildrenSet(c) == Range(Children(c))
RECURSIVE Descendants(_)
Descendants(c) == {c} \cup UNION {Descendants(d) : d \in ChildrenSet(c)}
ObjectsIn(c, with_children) ==
  IF with_children THEN UNION {Range(CollObjects(d)) : d \in Descendants(c)}
  ELSE Range(CollObjects(c))
Target(c, with_children) == ObjectsIn(c, with_children) \cap Visible

\* C1: after a call of the first activate operator that returns FINISHED the
\* view is in local view and the working set is exactly the visible objects
\* of the named collection (with its children's when include_children)
C1_ExactWorkingSet ==
  Finished("activate") =>
    /\ local_view
    /\ workset = Target(last.name, last.include_children)

\* C1 amended: the view is in local view unless reading the view's local-view
\* state raised while it was in local view; in local view the working set
\* holds visible objects of the named collection, all of them when no
\* visible_get or select_set raised, and besides them only the previous
\* selection, all of it, when the DESELECT could not be done
C1_WorkingSet ==
  Finished("activate") =>
    /\ local_view <=> ~(last.prev_local_view /\ "local_view_get" \in last.sw)
    /\ local_view =>
         /\ workset \subseteq
              Target(last.name, last.include_children)
                \cup (IF "deselect" \in last.sw THEN last.prev_selected ELSE {})
         /\ "select" \notin last.sw =>
              Target(last.name, last.include_children) \subseteq workset
         /\ "deselect" \in last.sw => last.prev_selected \subseteq workset

\* C1 witness: a second activation, from local view with a selection, has
\* switched the working set to another collection's objects
C1_Witness ==
  /\ Finished("activate")
  /\ last.prev_local_view
  /\ last.prev_selected # {}
  /\ last.sw = {}
  /\ local_view
  /\ workset = Target(last.name, last.include_children)
  /\ ~(last.prev_selected \subseteq workset)

\* the calls whose exception the callbacks catch, and those they do not
ProtectedCalls ==
  {"temp_override", "local_view_get", "localview_exit", "select_all_1",
   "deselect", "select", "active_set", "localview_enter",
   "restore_select_all", "restore_select_set", "restore_active_set",
   "final_select_all", "popup_menu", "keymap_items_new"}
UnprotectedCalls ==
  {"selected_objects", "active_get", "collections_get", "area_lookup",
   "view_layer_get", "layer_collection_get", "ops_call", "ops_error_report",
   "invoke_props_dialog", "layout_operator", "register_class", "keymaps_new",
   "keymap_items_new_3", "keymap_items_remove", "unregister_class"}

C3_KeymapsCleanedUp ==
  Ended("unregister") =>
    /\ addon_keymaps = <<>>
    /\ Range(last.prev_keymaps) \cap keymap_items = {}

\* the data collections among the direct parents of the objects of sel, and
\* their visible objects with those of their children
DataParents(sel) == {c \in DataCollections : Range(CollObjects(c)) \cap sel # {}}
UnionTarget(sel) == UNION {Target(c, TRUE) : c \in DataParents(sel)}

\* the visible objects of the collections the last activation was given
ActivatedTarget ==
  IF last.op = "activate" THEN Target(last.name, last.include_children)
  ELSE UnionTarget(last.prev_selected)

\* the restore of the selection ran and none of its calls raised
RestoreClean ==
  last.sw \cap {"restore_select_all", "restore_select_set",
                "restore_active_set", "final_select_all"} = {}

\* an activate operator has just returned FINISHED: the first one called
\* by the host, or the second one called by invoke
ActivationFinished ==
  \/ Finished("activate")
  \/ Ended("invoke") /\ last.inner = "FINISHED"

\* C4: after an activation that returns FINISHED the selection is the one
\* before the call, and with a prior selection the active object is the one
\* before the call
C4_SelectionRestored ==
  ActivationFinished =>
    /\ selected = last.prev_selected
    /\ last.prev_selected # {} => active = last.prev_active

\* C4 amended: the selection is restored when no call of the restore raises
\* (a DESELECT that raises leaves the selection as it is, a select_set that
\* raises leaves that object unselected); the active object is restored when
\* there was a prior selection and a prior active object; otherwise it is a
\* visible object of the activated collections, unless setting it raised
C4_RestoredUnlessRaised ==
  ActivationFinished =>
    /\ RestoreClean => selected = last.prev_selected
    /\ last.sw \cap {"restore_select_all", "final_select_all"} = {} =>
         selected \subseteq last.prev_selected
    /\ (RestoreClean /\ last.prev_selected # {} /\ last.prev_active # None) =>
         active = last.prev_active
    /\ (last.prev_selected = {} \/ last.prev_active = None) =>
         IF "active_set" \in last.sw THEN active = last.prev_active
         ELSE active \in ActivatedTarget

\* C4 witness: an activation has restored a selection and an active object
\* that are not among the objects it isolated
C4_Witness ==
  /\ Finished("activate")
  /\ last.sw = {}
  /\ last.prev_selected # {}
  /\ selected = last.prev_selected
  /\ last.prev_active # None
  /\ active = last.prev_active
  /\ local_view
  /\ workset \cap selected = {}
  /\ active \notin workset


\* the collections an object is directly in
Containing(o) == {c \in AllCollections : o \in Range(CollObjects(c))}

\* the collections from the view layer's root down to c; <<>> when c is not
\* part of the view layer
ParentsOf(c) == {p \in AllCollections : c \in ChildrenSet(p)}
RECURSIVE PathTo(_)
PathTo(c) ==
  IF c = Root THEN <<Root>>
  ELSE IF ParentsOf(c) = {} THEN <<>>
  ELSE LET up == PathTo(CHOOSE p \in ParentsOf(c) : TRUE)
       IN IF up = <<>> THEN <<>> ELSE Append(up, c)
InLayer(c) == PathTo(c) # <<>>

\* the collections of the popup's entries, in the order shown
EntryColls == [i \in 1..Len(last.popup.entries) |-> last.popup.entries[i][2]]

\* the popup shows the path to c as consecutive entries, the root as a label
\* and the collections below it as clickable entries
PathShown(c) ==
  \E i \in 0..Len(EntryColls) :
    /\ i + Len(PathTo(c)) <= Len(EntryColls)
    /\ \A j \in 1..Len(PathTo(c)) :
         /\ EntryColls[i + j] = PathTo(c)[j]
         /\ last.popup.entries[i + j][3] = (j > 1)

\* the popup shows every collection of the view layer once, parents before
\* children, all but the root clickable
FullHierarchyShown ==
  /\ Range(EntryColls) = {c \in AllCollections : InLayer(c)}
  /\ Len(EntryColls) = Cardinality(Range(EntryColls))
  /\ \A i \in 1..Len(EntryColls) :
       /\ last.popup.entries[i][3] = (EntryColls[i] # Root)
       /\ \A p \in ParentsOf(EntryColls[i]) :
            \E j \in 1..(i - 1) : EntryColls[j] = p

\* invoke has just returned FINISHED, and there was a view layer
InvokeFinished == Finished("invoke") /\ last.has_vl

InvokeMultiFinished == InvokeFinished /\ Cardinality(last.prev_selected) > 1

====
